---------------------------- MODULE Spec2Model ----------------------------
(***************************************************************************)
(* Model of the stochastic-process scripts: the walk sampler               *)
(* (random_walk_displacement.py), its sibling random_walk_finals and the   *)
(* consumer analyze_x_distribution (endpoints_analysis.py), the waiting    *)
(* time reduction (waiting_times.py), the Poisson comparison               *)
(* (poisson_simulation.py) and the trajectory sampler                      *)
(* (random_walk_trace.py).                                                 *)
(*                                                                         *)
(* All samplers draw from numpy's process-wide generator.  The generator   *)
(* is a deterministic automaton: a finite state, a seeding function from   *)
(* the seed to a state, and a step function from a state to an output and  *)
(* the next state.  The model keeps exactly that structure with a small    *)
(* shift register in place of the Mersenne Twister.                        *)
(***************************************************************************)
EXTENDS Integers, Sequences, FiniteSets, TLC

VARIABLES
    rng,    \* state of the process-wide generator behind np.random
    call,   \* the last call made: its function, arguments, outcome and result
    twin    \* a second process that reaches the first seeded call after a
            \* different history and makes the same calls from then on: its
            \* generator state and what its last call returned

vars == <<rng, call, twin>>

-----------------------------------------------------------------------------
(* Bounds of the model *)

RngBits == 4       \* width of the generator state
MaxSteps == 3      \* largest num_steps tried
MaxSims == 2       \* largest num_simulations / num_walks tried
UBits == 4         \* resolution of one uniform draw in [0, 1)
MaxFlips == 6      \* longest coin sequence tried
MaxTrace == 4      \* longest trajectory tried
MaxExperiments == 2  \* largest n_experiments tried
MaxCoinFlips == 2  \* largest n_flips of one binomial experiment tried
MaxLambda == 2     \* largest lambda_param tried
TwinOffsets == 2   \* generator states tried for the second process

-----------------------------------------------------------------------------
(* Python values that reach the argument checks.  An int is held in two    *)
(* limbs of 16 bits, value = hi * 2^16 + v, so that seeds on both sides of *)
(* 2^32 are representable.                                                 *)

PyInt(n) == [k |-> "int", hi |-> 0, v |-> n]
PyBig(h, l) == [k |-> "int", hi |-> h, v |-> l]
PyFloat(n) == [k |-> "float", hi |-> 0, v |-> n]
PyNone == [k |-> "None", hi |-> 0, v |-> 0]

\* isinstance(x, int)
IsInstanceInt(x) == x.k = "int"

RECURSIVE Pow(_, _)
Pow(b, e) == IF e = 0 THEN 1 ELSE b * Pow(b, e - 1)

RECURSIVE SumSeq(_)
SumSeq(s) == IF s = <<>> THEN 0 ELSE Head(s) + SumSeq(Tail(s))

Abs(x) == IF x < 0 THEN -x ELSE x

-----------------------------------------------------------------------------
(* The generator *)

RngSize == Pow(2, RngBits)

RngStates == 0 .. RngSize - 1

\* one step of the generator: the state after one draw (a shift register
\* with feedback from bits 0 and 2)
NextState(s) == (s \div 2) + ((s + (s \div 4)) % 2) * (RngSize \div 2)

\* the bit one draw from state s yields
OutBit(s) == s % 2

RECURSIVE Advance(_, _)
Advance(s, n) == IF n = 0 THEN s ELSE Advance(NextState(s), n - 1)

\* the first n bits drawn from state s
RECURSIVE Stream(_, _)
Stream(s, n) == IF n = 0 THEN <<>> ELSE <<OutBit(s)>> \o Stream(NextState(s), n - 1)

\* np.random.seed(seed) accepts 0 <= seed <= 2^32 - 1 and raises ValueError
\* for any other integer
SeedInRange(seed) ==
    \/ seed.hi = 0 /\ seed.v >= 0
    \/ seed.hi > 0 /\ seed.hi < 65536

\* the state np.random.seed(seed) leaves: a function of the seed alone
SeedState(seed) == ((seed.v + seed.hi) * 5 + 3) % RngSize

\* a seeding that leaves the generator as it was
SeedNoReset(s, seed) == [status |-> "ok", rng |-> s]

\* if seed is not None: np.random.seed(seed)
\* the outcome and the generator state after the statement
MaybeSeed(s, seed) ==
    IF seed = PyNone THEN [status |-> "ok", rng |-> s]
    ELSE IF ~SeedInRange(seed) THEN [status |-> "ValueError", rng |-> s]
    ELSE [status |-> "ok", rng |-> SeedState(seed)]

\* a one-sided population
StepValuesBiased == <<0, 1>>

\* the population [-1, 1] np.random.choice draws from
StepValues == <<-1, 1>>

\* np.random.choice(a, size=n): n elements of a, one generator bit each
Choice(a, s, n) == LET bits == Stream(s, n) IN [k \in 1 .. n |-> a[bits[k] + 1]]

\* sum of f[lo + 1 .. hi]: a reduction that drops the first step
RECURSIVE SumFromSkipsFirst(_, _, _)
SumFromSkipsFirst(f, lo, hi) ==
    IF lo >= hi THEN 0 ELSE f[lo + 1] + SumFromSkipsFirst(f, lo + 1, hi)

\* sum of f[lo .. hi]
RECURSIVE SumFrom(_, _, _)
SumFrom(f, lo, hi) == IF lo > hi THEN 0 ELSE f[lo] + SumFrom(f, lo + 1, hi)

\* np.sum(steps, axis=1) of the same buffer: a reduction over the trials
SumMiddleAxis(flat, d1, d2, d3) ==
    [a \in 1 .. d1 |->
        [j \in 1 .. d3 |->
            SumSeq([i \in 1 .. d2 |-> flat[(a - 1) * d2 * d3 + (i - 1) * d3 + j]])]]

\* np.sum(steps, axis=2) of a flat buffer read as shape (d1, d2, d3), row-major
SumLastAxis(flat, d1, d2, d3) ==
    [a \in 1 .. d1 |->
        [i \in 1 .. d2 |->
            SumFrom(flat, (a - 1) * d2 * d3 + (i - 1) * d3 + 1,
                          (a - 1) * d2 * d3 + i * d3)]]

-----------------------------------------------------------------------------
(* random_walk_displacement.py *)

\* a check that also rejects a count of 1
InvalidCountRejectsOne(x) == ~IsInstanceInt(x) \/ x.v <= 1

\* not isinstance(x, int) or x <= 0
InvalidCount(x) == ~IsInstanceInt(x) \/ x.v <= 0

\* the function with lines 23-24 moved above the argument checks
RandomWalkDisplacementSeedFirst(s, num_steps, num_simulations, seed) ==
    LET sd == MaybeSeed(s, seed) IN
    IF sd.status # "ok" THEN [status |-> sd.status, rng |-> s, out |-> <<>>]
    ELSE IF InvalidCount(num_steps) \/ InvalidCount(num_simulations)
    THEN [status |-> "ValueError", rng |-> sd.rng, out |-> <<>>]
    ELSE LET n == 2 * num_simulations.v * num_steps.v
             steps == Choice(StepValues, sd.rng, n)
         IN  [status |-> "ok", rng |-> Advance(sd.rng, n),
              out |-> SumLastAxis(steps, 2, num_simulations.v, num_steps.v)]

\* random_walk_displacement(num_steps, num_simulations, seed) called with
\* the generator in state s: the outcome, the generator state it leaves and
\* the array it returns (<<>> when it raises)
RandomWalkDisplacement(s, num_steps, num_simulations, seed) ==
    IF InvalidCount(num_steps)
    THEN [status |-> "ValueError", rng |-> s, out |-> <<>>]
    ELSE IF InvalidCount(num_simulations)
    THEN [status |-> "ValueError", rng |-> s, out |-> <<>>]
    ELSE LET sd == MaybeSeed(s, seed) IN
         IF sd.status # "ok" THEN [status |-> sd.status, rng |-> s, out |-> <<>>]
         ELSE LET n == 2 * num_simulations.v * num_steps.v
                  steps == Choice(StepValues, sd.rng, n)
              IN  [status |-> "ok", rng |-> Advance(sd.rng, n),
                   out |-> SumLastAxis(steps, 2, num_simulations.v, num_steps.v)]

-----------------------------------------------------------------------------
(* The calls the model makes *)

\* values tried for num_steps and num_simulations: negative, zero, the valid
\* counts, and a positive float
StepArgs == {PyInt(n) : n \in -1 .. MaxSteps} \cup {PyFloat(2)}

SimArgs == {PyInt(n) : n \in 0 .. MaxSims} \cup {PyFloat(2)}

\* seeds tried: unset, -1, 0, 2^32 - 1 and 2^32
SeedArgs == {PyNone, PyInt(-1), PyInt(0), PyBig(65535, 65535), PyBig(65536, 0)}

NoCall ==
    [op |-> "none", a |-> PyNone, b |-> PyNone, seed |-> PyNone,
     status |-> "none", out |-> <<>>, ret |-> <<>>]

\* no second process is followed
NoTwin == [on |-> FALSE, seeded |-> FALSE, rng |-> 0, status |-> "none", out |-> <<>>]

\* the second process once it is followed, after a call with result r2
Tracked(r2) ==
    [on |-> TRUE, seeded |-> TRUE, rng |-> r2.rng, status |-> r2.status,
     out |-> r2.out]

\* the generator states the second process may have when it reaches the
\* first seeded call: states other than this process's
OtherStates(s) == {(s + d) % RngSize : d \in 1 .. TwinOffsets}

\* the second process after a call: fromTwin is the call's result from the
\* second process's generator state, fromOthers its results from the states
\* in OtherStates(rng).  The second process is followed from the first
\* successful seeded call on, which it reaches in any of OtherStates(rng).
TwinAfter(fromTwin, fromOthers, seed) ==
    IF ~twin.on THEN {twin}
    ELSE IF twin.seeded THEN {Tracked(r2) : r2 \in {fromTwin}}
    ELSE IF seed = PyNone THEN {twin}
    ELSE {IF r2.status = "ok" THEN Tracked(r2) ELSE twin : r2 \in fromOthers}

\* the generator starts in whatever state the operating system's entropy
\* gave it
Init ==
    /\ rng \in RngStates
    /\ call = NoCall
    /\ twin = NoTwin

random_walk_displacement ==
    \E num_steps \in StepArgs, num_simulations \in SimArgs, seed \in SeedArgs :
        \E r \in {RandomWalkDisplacement(rng, num_steps, num_simulations, seed)} :
        /\ rng' = r.rng
        /\ call' = [op |-> "random_walk_displacement", a |-> num_steps,
                    b |-> num_simulations, seed |-> seed,
                    status |-> r.status, out |-> r.out, ret |-> <<>>]
        /\ twin' \in TwinAfter(RandomWalkDisplacement(twin.rng, num_steps, num_simulations, seed),
                           {RandomWalkDisplacement(s0, num_steps, num_simulations, seed) :
                               s0 \in OtherStates(rng)}, seed)

-----------------------------------------------------------------------------
(* endpoints_analysis.py *)

\* random_walk_finals(num_steps, num_walks) called with the generator in
\* state s; it checks nothing itself, and np.random.choice raises ValueError
\* for a negative dimension before anything is drawn
RandomWalkFinals(s, num_steps, num_walks) ==
    IF num_walks.v < 0 \/ num_steps.v < 0
    THEN [status |-> "ValueError", rng |-> s, out |-> <<>>]
    ELSE LET n == num_walks.v * num_steps.v
             steps_x == Choice(StepValues, s, n)
             steps_y == Choice(StepValues, Advance(s, n), n)
             x_finals == SumLastAxis(steps_x, 1, num_walks.v, num_steps.v)[1]
             y_finals == SumLastAxis(steps_y, 1, num_walks.v, num_steps.v)[1]
         IN  [status |-> "ok", rng |-> Advance(s, 2 * n),
              out |-> <<x_finals, y_finals>>]

\* np.mean(x) as the fraction <<numerator, denominator>>; nan is <<0, 0>>
SampleMean(x) == IF Len(x) = 0 THEN <<0, 0>> ELSE <<SumSeq(x), Len(x)>>

\* np.var(x, ddof=1) as a fraction:
\* sum((x - mean)^2) / (n - 1) = (n * sum(x^2) - sum(x)^2) / (n * (n - 1))
SampleVariance(x) ==
    LET n == Len(x)
        sq == SumSeq([i \in 1 .. n |-> x[i] * x[i]])
    IN  IF n <= 1 THEN <<0, 0>>
        ELSE <<n * sq - SumSeq(x) * SumSeq(x), n * (n - 1)>>

\* x_coords[0] of a one-dimensional integer array: a numpy integer scalar
ElementOf(x_coords, i) == [k |-> "int64", v |-> x_coords[i + 1]]

\* len(obj) is defined for sequences and arrays and raises TypeError for a
\* scalar
HasLen(obj) == obj.k \in {"ndarray", "list", "tuple", "str"}

\* the names bound at module level when the file is imported, and when it is
\* run as a script (lines 83-90 of the __main__ block have run)
ImportGlobals == {"np", "plt", "norm", "random_walk_finals",
                  "plot_endpoints_distribution", "analyze_x_distribution"}

ScriptGlobals == ImportGlobals \cup {"num_steps", "num_walks", "endpoints"}

\* analyze_x_distribution(endpoints): the outcome and the returned pair
\* (mean, variance), <<>> when it raises
AnalyzeXDistribution(endpoints, globals) ==
    LET x_coords == endpoints[1]
        mean == SampleMean(x_coords)
        variance == SampleVariance(x_coords)
    IN  IF Len(x_coords) = 0
        THEN [status |-> "IndexError", ret |-> <<>>]
        ELSE IF ~HasLen(ElementOf(x_coords, 0))
        THEN [status |-> "TypeError", ret |-> <<>>]
        ELSE IF "num_steps" \notin globals
        THEN [status |-> "NameError", ret |-> <<>>]
        ELSE [status |-> "ok", ret |-> <<mean, variance>>]

\* values tried for random_walk_finals, which checks nothing: -1, 0 and the
\* valid counts
FinalsStepArgs == {PyInt(n) : n \in -1 .. MaxSteps}

FinalsWalkArgs == {PyInt(n) : n \in -1 .. MaxSims}

random_walk_finals ==
    \E num_steps \in FinalsStepArgs, num_walks \in FinalsWalkArgs :
        \E r \in {RandomWalkFinals(rng, num_steps, num_walks)} :
        /\ rng' = r.rng
        /\ call' = [op |-> "random_walk_finals", a |-> num_steps,
                    b |-> num_walks, seed |-> PyNone,
                    status |-> r.status, out |-> r.out, ret |-> <<>>]
        /\ twin' \in TwinAfter(RandomWalkFinals(twin.rng, num_steps, num_walks),
                           {RandomWalkFinals(s0, num_steps, num_walks) :
                               s0 \in OtherStates(rng)}, PyNone)

\* analyze_x_distribution(endpoints) on the pair random_walk_finals returned
analyze_x_distribution ==
    /\ call.op = "random_walk_finals"
    /\ call.status = "ok"
    /\ \E globals \in {ImportGlobals, ScriptGlobals} :
        LET r == AnalyzeXDistribution(call.out, globals) IN
        /\ call' = [call EXCEPT !.op = "analyze_x_distribution",
                                !.status = r.status, !.ret = r.ret]
        /\ UNCHANGED <<rng, twin>>

Next ==
    \/ random_walk_displacement
    \/ random_walk_finals
    \/ analyze_x_distribution

Spec == Init /\ [][Next]_vars

-----------------------------------------------------------------------------
(* random_walk_trace.py *)

\* np.cumsum(x), with the origin put in front
CumsumFromOrigin(x) == [k \in 1 .. Len(x) |-> SumFrom(x, 1, k - 1)]

\* np.cumsum(x)
Cumsum(x) == [k \in 1 .. Len(x) |-> SumFrom(x, 1, k)]

\* random_walk_2d(steps, seed) called with the generator in state s; steps
\* is not checked, and a negative size makes np.random.choice raise after
\* the generator was reseeded
RandomWalk2d(s, steps, seed) ==
    LET sd == MaybeSeed(s, seed) IN
    IF sd.status # "ok" THEN [status |-> sd.status, rng |-> s, out |-> <<>>]
    ELSE IF steps.v < 0 THEN [status |-> "ValueError", rng |-> sd.rng, out |-> <<>>]
    ELSE LET x_steps == Choice(StepValues, sd.rng, steps.v)
             y_steps == Choice(StepValues, Advance(sd.rng, steps.v), steps.v)
         IN  [status |-> "ok", rng |-> Advance(sd.rng, 2 * steps.v),
              out |-> <<Cumsum(x_steps), Cumsum(y_steps)>>]

TraceStepArgs == {PyInt(n) : n \in -1 .. MaxTrace}

random_walk_2d ==
    \E steps \in TraceStepArgs, seed \in SeedArgs :
        LET r == RandomWalk2d(rng, steps, seed) IN
        /\ rng' = r.rng
        /\ call' = [op |-> "random_walk_2d", a |-> steps, b |-> PyNone,
                    seed |-> seed, status |-> r.status, out |-> r.out,
                    ret |-> <<>>]
        /\ twin' \in TwinAfter(RandomWalk2d(twin.rng, steps, seed),
                           {RandomWalk2d(s0, steps, seed) :
                               s0 \in OtherStates(rng)}, seed)

NextTrace == random_walk_2d

SpecTrace == Init /\ [][NextTrace]_vars

-----------------------------------------------------------------------------
(* waiting_times.py *)

\* a probability as the fraction num / den
PHeadDefault == [num |-> 2, den |-> 25]    \* p_head = 0.08

PHeadFair == [num |-> 1, den |-> 2]

\* one uniform draw in [0, 1) from state s, as the numerator u of u / 2^UBits
RECURSIVE BitsValue(_)
BitsValue(bits) == IF bits = <<>> THEN 0 ELSE 2 * BitsValue(Tail(bits)) + Head(bits)

Uniform(s) == BitsValue(Stream(s, UBits))

\* np.random.choice([0, 1], p=[1 - p, p]) for one uniform u: the number of
\* entries of the cumulative distribution [1 - p, 1] that are <= u
ChooseWithP(u, p) == IF (p.den - p.num) * Pow(2, UBits) <= u * p.den THEN 1 ELSE 0

\* generate_coin_sequence(n_flips, p_head) from generator state s
GenerateCoinSequence(s, n_flips, p_head) ==
    [i \in 1 .. n_flips |-> ChooseWithP(Uniform(Advance(s, (i - 1) * UBits)), p_head)]

\* the call as a whole: the outcome, the generator state it leaves and the
\* sequence it returns
GenerateCoinSequenceCall(s, n_flips, p_head) ==
    [status |-> "ok", rng |-> Advance(s, n_flips * UBits),
     out |-> <<GenerateCoinSequence(s, n_flips, p_head)>>]

\* np.nonzero(x)[0]: the 0-based positions of the nonzero entries, ascending
RECURSIVE NonZeroFrom(_, _)
NonZeroFrom(x, i) ==
    IF i > Len(x) THEN <<>>
    ELSE (IF x[i] # 0 THEN <<i - 1>> ELSE <<>>) \o NonZeroFrom(x, i + 1)

NonZero(x) == NonZeroFrom(x, 1)

\* np.diff(x)
Diff(x) == [i \in 1 .. Len(x) - 1 |-> x[i + 1] - x[i]]

\* the intervals between heads, without the subtraction of line 15
CalculateWaitingTimesNoMinusOne(coin_sequence) ==
    LET head_indices == NonZero(coin_sequence) IN
    IF Len(head_indices) < 2 THEN <<>> ELSE Diff(head_indices)

\* calculate_waiting_times(coin_sequence)
CalculateWaitingTimes(coin_sequence) ==
    LET head_indices == NonZero(coin_sequence)
        intervals == Diff(head_indices)
    IN  IF Len(head_indices) < 2 THEN <<>>
        ELSE [i \in 1 .. Len(intervals) |-> intervals[i] - 1]

\* every 0/1 sequence of at most MaxFlips flips
CoinSequences == UNION {[1 .. n -> {0, 1}] : n \in 0 .. MaxFlips}

generate_coin_sequence ==
    \E n_flips \in 0 .. MaxFlips, p_head \in {PHeadDefault, PHeadFair} :
        \E r \in {GenerateCoinSequenceCall(rng, n_flips, p_head)} :
        /\ rng' = r.rng
        /\ call' = [op |-> "generate_coin_sequence", a |-> PyInt(n_flips),
                    b |-> PyNone, seed |-> PyNone, status |-> r.status,
                    out |-> r.out, ret |-> <<>>]
        /\ twin' \in TwinAfter(GenerateCoinSequenceCall(twin.rng, n_flips, p_head),
                           {GenerateCoinSequenceCall(s0, n_flips, p_head) :
                               s0 \in OtherStates(rng)}, PyNone)

calculate_waiting_times ==
    \E coin_sequence \in CoinSequences :
        /\ call' = [op |-> "calculate_waiting_times", a |-> PyNone,
                    b |-> PyNone, seed |-> PyNone, status |-> "ok",
                    out |-> <<coin_sequence>>,
                    ret |-> CalculateWaitingTimes(coin_sequence)]
        /\ UNCHANGED <<rng, twin>>

NextWaiting ==
    \/ generate_coin_sequence
    \/ calculate_waiting_times

SpecWaiting == Init /\ [][NextWaiting]_vars

-----------------------------------------------------------------------------
(* poisson_simulation.py *)

\* the binomial coefficient C(n, k)
RECURSIVE Binom(_, _)
Binom(n, k) ==
    IF k = 0 \/ k = n THEN 1 ELSE Binom(n - 1, k - 1) + Binom(n - 1, k)

\* den^n times the probability of at most k heads in n flips
RECURSIVE CdfScaled(_, _, _)
CdfScaled(n, p, k) ==
    IF k < 0 THEN 0
    ELSE Binom(n, k) * Pow(p.num, k) * Pow(p.den - p.num, n - k)
         + CdfScaled(n, p, k - 1)

\* np.random.binomial(n, p) for one uniform u / 2^UBits by inversion: the
\* smallest count whose cumulative probability reaches the uniform
BinomialByInversion(n, p, u) ==
    CHOOSE x \in 0 .. n :
        /\ u * Pow(p.den, n) <= Pow(2, UBits) * CdfScaled(n, p, x)
        /\ \A y \in 0 .. x - 1 :
              u * Pow(p.den, n) > Pow(2, UBits) * CdfScaled(n, p, y)

\* simulate_coin_flips(n_experiments, n_flips, p_head, seed) from generator
\* state s; binomial(0, p) is 0 without a draw
SimulateCoinFlips(s, n_experiments, n_flips, p_head, seed) ==
    LET sd == MaybeSeed(s, seed) IN
    IF sd.status # "ok" THEN [status |-> sd.status, rng |-> s, out |-> <<>>]
    ELSE IF n_flips < 0 \/ n_experiments < 0
    THEN [status |-> "ValueError", rng |-> sd.rng, out |-> <<>>]
    ELSE IF n_flips = 0
    THEN [status |-> "ok", rng |-> sd.rng,
          out |-> <<[i \in 1 .. n_experiments |-> 0]>>]
    ELSE [status |-> "ok", rng |-> Advance(sd.rng, n_experiments * UBits),
          out |-> <<[i \in 1 .. n_experiments |->
                      BinomialByInversion(n_flips, p_head,
                          Uniform(Advance(sd.rng, (i - 1) * UBits)))]>>]

\* the names compare_simulation_theory can read: its parameters and the
\* local assigned on line 65, then the names bound at module level
CompareLocals == {"n_experiments", "lambda_param", "seed", "start_time"}

PoissonGlobals == {"np", "plt", "factorial", "poisson", "time", "MaxNLocator",
                   "plot_poisson_pmf", "simulate_coin_flips",
                   "compare_simulation_theory"}

\* the names line 68 reads to build the call of simulate_coin_flips
NamesReadOnLine68 == {"simulate_coin_flips", "n_experiments", "lambda_param",
                      "p_head", "seed"}

\* compare_simulation_theory(n_experiments, lambda_param, seed): reading an
\* unbound name raises NameError before simulate_coin_flips is entered
CompareSimulationTheory(s, n_experiments, lambda_param, seed) ==
    IF ~(NamesReadOnLine68 \subseteq (CompareLocals \cup PoissonGlobals))
    THEN [status |-> "NameError", rng |-> s, out |-> <<>>]
    ELSE SimulateCoinFlips(s, n_experiments,
                           (lambda_param * PHeadDefault.den) \div PHeadDefault.num,
                           PHeadDefault, seed)

PoissonSeedArgs == {PyNone, PyInt(-1), PyInt(0)}

simulate_coin_flips ==
    \E n_experiments \in 1 .. MaxExperiments, n_flips \in 0 .. MaxCoinFlips,
       p_head \in {PHeadDefault, PHeadFair}, seed \in PoissonSeedArgs :
        LET r == SimulateCoinFlips(rng, n_experiments, n_flips, p_head, seed) IN
        /\ rng' = r.rng
        /\ call' = [op |-> "simulate_coin_flips", a |-> PyInt(n_experiments),
                    b |-> PyInt(n_flips), seed |-> seed, status |-> r.status,
                    out |-> r.out, ret |-> <<>>]
        /\ twin' \in TwinAfter(SimulateCoinFlips(twin.rng, n_experiments, n_flips, p_head, seed),
                           {SimulateCoinFlips(s0, n_experiments, n_flips, p_head, seed) :
                               s0 \in OtherStates(rng)}, seed)

compare_simulation_theory ==
    \E n_experiments \in 1 .. MaxExperiments, lambda_param \in 1 .. MaxLambda,
       seed \in PoissonSeedArgs :
        LET r == CompareSimulationTheory(rng, n_experiments, lambda_param, seed) IN
        /\ rng' = r.rng
        /\ call' = [op |-> "compare_simulation_theory",
                    a |-> PyInt(n_experiments), b |-> PyInt(lambda_param),
                    seed |-> seed, status |-> r.status, out |-> r.out,
                    ret |-> <<>>]
        /\ twin' \in TwinAfter(CompareSimulationTheory(twin.rng, n_experiments, lambda_param, seed),
                           {CompareSimulationTheory(s0, n_experiments, lambda_param, seed) :
                               s0 \in OtherStates(rng)}, seed)

NextPoisson ==
    \/ simulate_coin_flips
    \/ compare_simulation_theory

SpecPoisson == Init /\ [][NextPoisson]_vars

-----------------------------------------------------------------------------
(* The samplers of the three files imported into one process: they share   *)
(* the generator.  A second process is followed from the first successful  *)
(* seeded call on.                                                         *)

InitShared ==
    /\ rng \in RngStates
    /\ call = NoCall
    /\ twin = [NoTwin EXCEPT !.on = TRUE]

NextShared ==
    \/ random_walk_displacement
    \/ random_walk_finals
    \/ generate_coin_sequence

SpecShared == InitShared /\ [][NextShared]_vars

-----------------------------------------------------------------------------
(* Vocabulary of the properties *)

\* x is a positive integer
PositiveInteger(x) == x.k = "int" /\ x.hi = 0 /\ x.v >= 1

\* the seed is unset or an integer in 0 .. 2^32 - 1
SeedUnsetOrUint32(seed) ==
    \/ seed.k = "None"
    \/ seed.k = "int" /\ seed.hi = 0 /\ seed.v >= 0
    \/ seed.k = "int" /\ seed.hi >= 1 /\ seed.hi <= 65535

IsSampler(op) == op \in {"random_walk_displacement", "random_walk_finals"}

\* the last call was a sampler call with valid counts that returned
SamplerReturned ==
    /\ IsSampler(call.op)
    /\ PositiveInteger(call.a)
    /\ PositiveInteger(call.b)
    /\ call.status = "ok"

-----------------------------------------------------------------------------
(* Properties of random_walk_displacement and random_walk_finals *)

\* C1: a call of random_walk_displacement whose num_steps or num_simulations
\* is not a positive integer raises ValueError, returns no array and leaves
\* the generator state as it was, also when a seed was supplied.
C1_InvalidCountsRaiseBeforeSeeding ==
    [][(/\ call'.op = "random_walk_displacement"
        /\ (~PositiveInteger(call'.a) \/ ~PositiveInteger(call'.b)))
       => (/\ call'.status = "ValueError"
           /\ call'.out = <<>>
           /\ rng' = rng)]_vars

C1_Witness ==
    /\ call.op = "random_walk_displacement"
    /\ call.a = PyInt(0)
    /\ PositiveInteger(call.b)
    /\ call.seed = PyInt(0)
    /\ call.status = "ValueError"
    /\ rng # SeedState(PyInt(0))

\* C2: a successful seeded call of random_walk_displacement returns the
\* array the same call returns from every other generator state: the output
\* is a function of (num_steps, num_simulations, seed) alone.
C2_SeededCallDeterministic ==
    (/\ call.op = "random_walk_displacement"
     /\ call.status = "ok"
     /\ call.seed # PyNone)
    => \A s \in RngStates :
          LET again == RandomWalkDisplacement(s, call.a, call.b, call.seed) IN
          /\ again.status = "ok"
          /\ again.out = call.out

\* a seeded call of more than one step whose unseeded twin would have
\* returned something else from some generator state
C2_Witness ==
    /\ call.op = "random_walk_displacement"
    /\ call.status = "ok"
    /\ call.seed = PyInt(0)
    /\ call.a.v = MaxSteps
    /\ \E s \in RngStates :
          RandomWalkDisplacement(s, call.a, call.b, PyNone).out # call.out

\* C3: every displacement a sampler returns for a valid step count n lies in
\* -n .. n and has the parity of n; with n = 1 it is +1 or -1, never 0.
C3_DisplacementBoundAndParity ==
    SamplerReturned =>
        \A a \in 1 .. Len(call.out) : \A i \in 1 .. Len(call.out[a]) :
            LET d == call.out[a][i]
                n == call.a.v
            IN  /\ Abs(d) <= n
                /\ (d + n) % 2 = 0
                /\ (n = 1 => d \in {-1, 1})

C3_Witness ==
    /\ SamplerReturned
    /\ call.a.v = 1
    /\ call.out[1][1] = -1
    /\ call.out[2][1] = 1

\* C4 as stated: for every pair of positive integer counts the sampler call
\* succeeds and returns two sequences of trial_count entries each.
C4_Original ==
    (/\ IsSampler(call.op)
     /\ PositiveInteger(call.a)
     /\ PositiveInteger(call.b))
    => (/\ call.status = "ok"
        /\ Len(call.out) = 2
        /\ Len(call.out[1]) = call.b.v
        /\ Len(call.out[2]) = call.b.v)

\* C4, amended: for every pair of positive integer counts and a seed that is
\* unset or in 0 .. 2^32 - 1, the sampler call succeeds and returns exactly
\* two sequences, each of trial_count entries.
C4_ShapeOfResult ==
    (/\ IsSampler(call.op)
     /\ PositiveInteger(call.a)
     /\ PositiveInteger(call.b)
     /\ SeedUnsetOrUint32(call.seed))
    => (/\ call.status = "ok"
        /\ Len(call.out) = 2
        /\ \A a \in 1 .. 2 : Len(call.out[a]) = call.b.v)

C4_Witness ==
    /\ SamplerReturned
    /\ call.op = "random_walk_displacement"
    /\ call.a.v = MaxSteps
    /\ call.b.v = MaxSims
    /\ Len(call.out[1]) = MaxSims
    /\ Len(call.out[2]) = MaxSims

\* C5 as stated: with valid counts random_walk_displacement completes
\* without an error for every integer seed and for an unset seed.
C5_Original ==
    (/\ call.op = "random_walk_displacement"
     /\ PositiveInteger(call.a)
     /\ PositiveInteger(call.b)
     /\ call.seed.k \in {"int", "None"})
    => call.status = "ok"

\* C5, amended: with valid counts random_walk_displacement completes and
\* returns displacements exactly when the seed is unset or an integer in
\* 0 .. 2^32 - 1; for any other integer seed np.random.seed raises
\* ValueError and nothing is returned.
C5_SeedAcceptedIffUint32 ==
    (/\ call.op = "random_walk_displacement"
     /\ PositiveInteger(call.a)
     /\ PositiveInteger(call.b))
    => IF SeedUnsetOrUint32(call.seed)
       THEN call.status = "ok" /\ call.out # <<>>
       ELSE call.status = "ValueError" /\ call.out = <<>>

\* the largest accepted seed, 2^32 - 1, was accepted
C5_Witness ==
    /\ call.op = "random_walk_displacement"
    /\ call.seed = PyBig(65535, 65535)
    /\ call.status = "ok"
    /\ Len(call.out) = 2

\* C6 as stated: analyze_x_distribution, given the pair random_walk_finals
\* returned for valid counts, completes without error, returns the sample
\* mean and the unbiased sample variance of the x displacements, and leaves
\* the displacement arrays as they were.
C6_Original ==
    (/\ call.op = "analyze_x_distribution"
     /\ PositiveInteger(call.a)
     /\ PositiveInteger(call.b))
    => (/\ call.status = "ok"
        /\ call.ret = <<SampleMean(call.out[1]), SampleVariance(call.out[1])>>
        /\ Len(call.out) = 2)

\* the k-th of the 2^n step sequences of length n over {-1, +1}
StepRow(k, n) == [j \in 1 .. n |-> StepValues[((k \div Pow(2, j - 1)) % 2) + 1]]

\* the final displacement the sampler's reduction gives one trial
RowDisplacement(row) == SumLastAxis(row, 1, 1, Len(row))[1][1]

\* C7: over all 2^n equally likely step sequences of one trial of n steps,
\* the final displacement has mean exactly 0 and variance exactly n: the
\* displacements sum to 0 and their squares sum to n * 2^n.
C7_ExactMeanAndVariance ==
    SamplerReturned =>
        LET n == call.a.v
            disp == [k \in 1 .. Pow(2, n) |-> RowDisplacement(StepRow(k - 1, n))]
        IN  /\ SumSeq(disp) = 0
            /\ SumSeq([k \in 1 .. Pow(2, n) |-> disp[k] * disp[k]]) = n * Pow(2, n)

\* a returned call of the longest walk, one trial at an extreme
C7_Witness ==
    /\ SamplerReturned
    /\ call.op = "random_walk_finals"
    /\ call.a.v = MaxSteps
    /\ call.out[1][1] = MaxSteps

-----------------------------------------------------------------------------
(* Properties of the waiting times, the Poisson comparison and the trace *)

\* the 1-based position of the i-th head of a 0/1 sequence
HeadPosition(seq, i) ==
    CHOOSE q \in 1 .. Len(seq) :
        seq[q] = 1 /\ Cardinality({r \in 1 .. q : seq[r] = 1}) = i

\* C8: for a 0/1 sequence with k heads calculate_waiting_times returns the
\* empty result if k < 2 and otherwise k - 1 entries, the i-th the number of
\* tails strictly between the i-th and the (i+1)-th head, each >= 0; the
\* entries plus k add up to the distance from the first to the last head
\* inclusive, so tails outside the heads are not counted.
C8_WaitingTimes ==
    call.op = "calculate_waiting_times" =>
        LET seq == call.out[1]
            w == call.ret
            k == Cardinality({q \in 1 .. Len(seq) : seq[q] = 1})
        IN  IF k < 2 THEN w = <<>>
            ELSE /\ Len(w) = k - 1
                 /\ \A i \in 1 .. k - 1 :
                       /\ w[i] = Cardinality({q \in 1 .. Len(seq) :
                                     /\ HeadPosition(seq, i) < q
                                     /\ q < HeadPosition(seq, i + 1)
                                     /\ seq[q] = 0})
                       /\ w[i] >= 0
                 /\ SumSeq(w) + k
                      = HeadPosition(seq, k) - HeadPosition(seq, 1) + 1

\* adjacent heads, a gap of two tails, and tails at both ends
C8_Witness ==
    /\ call.op = "calculate_waiting_times"
    /\ call.out[1] = <<0, 1, 1, 0, 0, 1>>
    /\ call.ret = <<0, 2>>

\* C9 as stated: compare_simulation_theory, for valid arguments, runs the
\* simulation and completes by returning the figure rather than ending in
\* an error.
C9_Original ==
    (/\ call.op = "compare_simulation_theory"
     /\ SeedUnsetOrUint32(call.seed))
    => call.status = "ok"

\* C10: for steps >= 1, random_walk_2d with a seed numpy accepts returns two
\* sequences of exactly steps entries; on each axis the first entry is +1 or
\* -1, every later entry differs from its predecessor by exactly 1, and
\* entry k (0-based) lies in -(k+1) .. k+1 with the parity of k+1.
C10_TrajectoryShape ==
    (/\ call.op = "random_walk_2d"
     /\ PositiveInteger(call.a)
     /\ SeedUnsetOrUint32(call.seed))
    => (/\ call.status = "ok"
        /\ Len(call.out) = 2
        /\ \A a \in 1 .. 2 :
              LET c == call.out[a] IN
              /\ Len(c) = call.a.v
              /\ c[1] \in {-1, 1}
              /\ \A k \in 2 .. Len(c) : c[k] - c[k - 1] \in {-1, 1}
              /\ \A k \in 1 .. Len(c) : Abs(c[k]) <= k /\ (c[k] + k) % 2 = 0)

\* a longest trajectory that turns back on the x axis while y keeps going
C10_Witness ==
    /\ call.op = "random_walk_2d"
    /\ call.status = "ok"
    /\ call.a.v = MaxTrace
    /\ call.out[1][1] = 1
    /\ call.out[1][2] = 0
    /\ call.out[2][1] = -1
    /\ call.out[2][2] = -2

-----------------------------------------------------------------------------
(* Properties of the shared generator *)

IsUnseededSampling(c) ==
    /\ c.op \in {"random_walk_displacement", "random_walk_finals",
                 "generate_coin_sequence"}
    /\ c.seed = PyNone
    /\ c.status = "ok"

\* the number of generator draws an unseeded sampling call asks for: two
\* axes of trials * steps one-bit draws, or one uniform per flip
DrawsAskedFor(c) ==
    IF c.op = "generate_coin_sequence" THEN c.a.v * UBits
    ELSE 2 * c.a.v * c.b.v

\* from the first successful seeded call on, the second process, which came
\* to that call with another generator state, has the generator state of
\* this one and got from its last call what this one got
SameFromSeededCallOn ==
    (twin.on /\ twin.seeded) =>
        /\ twin.rng = rng
        /\ twin.status = call.status
        /\ twin.out = call.out

\* an unseeded sampling call moves the generator on by its draws from where
\* the calls before it left it
UnseededCallAdvances ==
    IsUnseededSampling(call') => rng' = Advance(rng, DrawsAskedFor(call'))

\* C11: a successful seeded call of random_walk_displacement leaves a
\* generator state that does not depend on the state before it, so the
\* results of all later calls (unseeded random_walk_displacement,
\* random_walk_finals, generate_coin_sequence) are determined by that call
\* and the calls after it; an unseeded call only advances the state the
\* preceding calls left.
C11_SeededCallFixesLaterOutputs ==
    /\ []SameFromSeededCallOn
    /\ [][UnseededCallAdvances]_vars

\* an unseeded random_walk_finals after the seeded call: both processes got
\* the same displacements, though from another generator state the call
\* would have returned something else
C11_Witness ==
    /\ twin.on
    /\ twin.seeded
    /\ call.op = "random_walk_finals"
    /\ call.status = "ok"
    /\ call.a.v = MaxSteps
    /\ call.b.v >= 1
    /\ twin.out = call.out
    /\ \E s \in RngStates :
          RandomWalkFinals(s, call.a, call.b).out # call.out

=============================================================================
